---- MODULE Spec2Model ----
(***************************************************************************)
(* Model of scripts/generate-favicon.py: create_favicon(size) paints an    *)
(* emerald rounded square and five white cards on a size x size RGBA       *)
(* canvas; main() renders once at the largest size and saves an ICO with   *)
(* three frame sizes, then prints one confirmation line.                   *)
(*                                                                         *)
(* Grid coordinates of the cards are half-integers (14.5, 20.5, ...), so   *)
(* they are kept in half units (29, 41, ...).  s = size / 32 and every     *)
(* product v * s are exactly representable binary fractions, and int()     *)
(* truncates towards zero, so int(v * s) = (2v * size) \div 64.            *)
(***************************************************************************)
EXTENDS Integers, Sequences, FiniteSets, TLC

\* Largest size create_favicon is applied to when it is called directly.
MaxSize == 64
\* Number of times a direct caller invokes create_favicon on its argument.
MaxCalls == 2

VARIABLES
    mode,       \* "main": the script is run; "call": create_favicon is called directly
    pc,         \* position in main() / create_favicon()
    size,       \* the argument of the running create_favicon call
    img,        \* the canvas: [w, h, px], px a function from pixel to RGBA
    ops,        \* the rounded_rectangle calls issued on the current draw object
    i,          \* index of the next card in the loop being executed
    calls,      \* number of create_favicon invocations started so far
    prev,       \* what the previous completed invocation returned and drew
    saveCalls,  \* the img.save(...) calls issued by main()
    file,       \* frame sizes of the container at out_path
    written,    \* TRUE once the container exists at out_path
    printed,    \* number of confirmation lines on standard output
    exitCode    \* process exit status, -1 while running

vars == <<mode, pc, size, img, ops, i, calls, prev, saveCalls, file, written,
          printed, exitCode>>

----------------------------------------------------------------------------
\* Constants of the script

EMERALD == <<16, 185, 129, 255>>
CARD_COLOR == <<255, 255, 255, 235>>
TRANSPARENT == <<0, 0, 0, 0>>

\* The reference grid: s = size / 32.
BaseGrid == 32

\* sizes = [16, 32, 48]
sizes == <<16, 32, 48>>

SupportedSizes == {sizes[k] : k \in DOMAIN sizes}

\* out_path, fixed relative to the script
out_path == "src/app/favicon.ico"

\* col1_cards, in half grid units: (4, 4, 14.5, 13), (4, 15, 14.5, 20.5),
\* (4, 22.5, 14.5, 28.5)
col1_cardsTouching ==
    << <<8, 8, 29, 26>>, <<8, 26, 29, 41>>, <<8, 45, 29, 57>> >>

col1_cards ==
    << <<8, 8, 29, 26>>, <<8, 30, 29, 41>>, <<8, 45, 29, 57>> >>

\* col2_cards, in half grid units: (17.5, 4, 28, 10.5), (17.5, 12.5, 28, 22.5)
col2_cardsToEdge ==
    << <<35, 8, 64, 21>>, <<35, 25, 64, 45>> >>

col2_cardsSwapped ==
    << <<56, 8, 35, 21>>, <<56, 25, 35, 45>> >>

col2_cards ==
    << <<35, 8, 56, 21>>, <<35, 25, 56, 45>> >>

----------------------------------------------------------------------------
\* Arithmetic of create_favicon

Max(a, b) == IF a >= b THEN a ELSE b

\* int(v * s) for the grid coordinate v = v2 / 2 and s = sz / 32.
ScaledAccumulated(v2, sz) == (v2 * sz * calls) \div (2 * BaseGrid)

Scaled(v2, sz) == (v2 * sz) \div (2 * BaseGrid)

\* radius = int(6 * s)
BgRadiusInverse(sz) == (6 * BaseGrid) \div sz

BgRadius(sz) == (6 * sz) \div BaseGrid

\* card_r = max(1, int(1.5 * s))
CardRNoFloor(sz) == (3 * sz) \div (2 * BaseGrid)

CardR(sz) == Max(1, (3 * sz) \div (2 * BaseGrid))

\* largest = max(sizes)
largestMin == CHOOSE m \in SupportedSizes : \A n \in SupportedSizes : m <= n

largest == CHOOSE m \in SupportedSizes : \A n \in SupportedSizes : m >= n

----------------------------------------------------------------------------
\* The image library's primitives, as the script uses them

\* Image.new("RGBA", (size, size), (0, 0, 0, 0))
ImageNewShort(sz) ==
    [w |-> sz, h |-> sz - 1,
     px |-> [p \in (0 .. sz - 1) \X (0 .. sz - 2) |-> TRANSPARENT]]

ImageNew(sz) ==
    [w |-> sz, h |-> sz,
     px |-> [p \in (0 .. sz - 1) \X (0 .. sz - 1) |-> TRANSPARENT]]

\* The argument list of one rounded_rectangle call.
Op(x0, y0, x1, y1, radius, fill) ==
    [x0 |-> x0, y0 |-> y0, x1 |-> x1, y1 |-> y1, radius |-> radius, fill |-> fill]

\* rounded_rectangle raises ValueError when x1 < x0 or y1 < y0.
Malformed(op) == op.x1 < op.x0 \/ op.y1 < op.y0

InBox(x, y, x0, y0, x1, y1) == x0 <= x /\ x <= x1 /\ y0 <= y /\ y <= y1

\* Pixel centre inside the ellipse inscribed in the inclusive box.
InEllipse(x, y, x0, y0, x1, y1) ==
    LET w == x1 - x0 + 1
        h == y1 - y0 + 1
        dx == 2 * x - x0 - x1
        dy == 2 * y - y0 - y1
    IN  /\ InBox(x, y, x0, y0, x1, y1)
        /\ dx * dx * h * h + dy * dy * w * w <= w * w * h * h

\* The pixels one filled rounded_rectangle call covers: the whole rectangle
\* but for the parts of the four corner boxes outside the corner arcs.  The
\* decomposition (full_x, full_y, four pie slices, middle, left and right
\* rectangles) is the drawing library's; which pixels of a corner box an arc
\* includes is the library's rasteriser, taken here as the pixel-centre test
\* InEllipse.  No property below reads a pixel of a corner box.
Covered(x, y, op) ==
    LET x0 == op.x0
        y0 == op.y0
        x1 == op.x1
        y1 == op.y1
        d0 == op.radius * 2
        full_x == d0 >= x1 - x0 - 1
        d1 == IF full_x THEN x1 - x0 ELSE d0
        full_y == d1 >= y1 - y0 - 1
        d == IF full_y THEN y1 - y0 ELSE d1
        r == d \div 2
    IN  IF full_x /\ full_y
        THEN InEllipse(x, y, x0, y0, x1, y1)
        ELSE IF d = 0
        THEN InBox(x, y, x0, y0, x1, y1)
        ELSE
            \* the four pie slices
            \/ /\ x <= x0 + r /\ y <= y0 + r
               /\ InEllipse(x, y, x0, y0, x0 + d, y0 + d)
            \/ /\ x >= x1 - r /\ y <= y0 + r
               /\ InEllipse(x, y, x1 - d, y0, x1, y0 + d)
            \/ /\ x >= x1 - r /\ y >= y1 - r
               /\ InEllipse(x, y, x1 - d, y1 - d, x1, y1)
            \/ /\ x <= x0 + r /\ y >= y1 - r
               /\ InEllipse(x, y, x0, y1 - d, x0 + d, y1)
            \* the middle rectangle
            \/ IF full_x
               THEN InBox(x, y, x0, y0 + r + 1, x1, y1 - r - 1)
               ELSE InBox(x, y, x0 + r + 1, y0, x1 - r - 1, y1)
            \* the left and right rectangles
            \/ /\ ~full_x /\ ~full_y
               /\ \/ InBox(x, y, x0, y0 + r + 1, x0 + r, y1 - r - 1)
                  \/ InBox(x, y, x1 - r, y0 + r + 1, x1, y1 - r - 1)

\* Alpha compositing of a fill over an opaque pixel (what a fill does NOT do).
Composite(fill, old) ==
    IF old = TRANSPARENT THEN fill
    ELSE [c \in 1 .. 4 |->
            IF c = 4 THEN 255
            ELSE (fill[c] * fill[4] + old[c] * (255 - fill[4])) \div 255]

PaintComposite(image, op) ==
    [image EXCEPT !.px =
        [p \in DOMAIN image.px |->
            IF Covered(p[1], p[2], op) THEN Composite(op.fill, image.px[p])
            ELSE image.px[p]]]

\* A fill overwrites the covered pixels of the canvas (no blending).
Paint(image, op) ==
    [image EXCEPT !.px =
        [p \in DOMAIN image.px |->
            IF Covered(p[1], p[2], op) THEN op.fill ELSE image.px[p]]]

\* The rectangle of one card, scaled and truncated.
CardOp(c, sz) ==
    Op(Scaled(c[1], sz), Scaled(c[2], sz), Scaled(c[3], sz), Scaled(c[4], sz),
       CardR(sz), CARD_COLOR)

\* The ICO encoder writes the requested sizes that fit in the image.
IcoFrames(image, requested) ==
    {f \in requested : f[1] <= image.w /\ f[2] <= image.h}

NoResult == [none |-> TRUE]
NoImage == [w |-> 0, h |-> 0, px |-> << >>]

----------------------------------------------------------------------------
\* State machine

Init ==
    /\ mode \in {"main", "call"}
    /\ pc = IF mode = "main" THEN "main" ELSE "new"
    /\ size \in IF mode = "main" THEN {0} ELSE 1 .. MaxSize
    /\ img = NoImage
    /\ ops = << >>
    /\ i = 1
    /\ calls = IF mode = "main" THEN 0 ELSE 1
    /\ prev = NoResult
    /\ saveCalls = << >>
    /\ file = {}
    /\ written = FALSE
    /\ printed = 0
    /\ exitCode = -1

\* main(): img = create_favicon(largest)
MainCall ==
    /\ pc = "main"
    /\ size' = largest
    /\ calls' = calls + 1
    /\ pc' = "new"
    /\ UNCHANGED <<mode, img, ops, i, prev, saveCalls, file, written, printed, exitCode>>

\* img = Image.new(...); draw = ImageDraw.Draw(img)
NewCanvas ==
    /\ pc = "new"
    /\ img' = ImageNew(size)
    /\ ops' = << >>
    /\ pc' = "bg"
    /\ UNCHANGED <<mode, size, i, calls, prev, saveCalls, file, written, printed, exitCode>>

\* One draw.rounded_rectangle(...) call: raises on malformed geometry,
\* otherwise fills.
Draw(op, next, nexti) ==
    /\ ops' = Append(ops, op)
    /\ IF Malformed(op)
       THEN /\ pc' = "raised"
            /\ exitCode' = 1
            /\ UNCHANGED <<img, i>>
       ELSE /\ img' = Paint(img, op)
            /\ pc' = next
            /\ i' = nexti
            /\ UNCHANGED exitCode
    /\ UNCHANGED <<mode, size, calls, prev, saveCalls, file, written, printed>>

\* Rounded emerald background
DrawBackground ==
    /\ pc = "bg"
    /\ Draw(Op(0, 0, size - 1, size - 1, BgRadius(size), EMERALD), "col1", 1)

\* for x1, y1, x2, y2 in col1_cards: ...
DrawCol1Card ==
    /\ pc = "col1"
    /\ i <= Len(col1_cards)
    /\ Draw(CardOp(col1_cards[i], size),
            IF i = Len(col1_cards) THEN "col2" ELSE "col1",
            IF i = Len(col1_cards) THEN 1 ELSE i + 1)

\* for x1, y1, x2, y2 in col2_cards: ...
DrawCol2Card ==
    /\ pc = "col2"
    /\ i <= Len(col2_cards)
    /\ Draw(CardOp(col2_cards[i], size),
            IF i = Len(col2_cards) THEN "ret" ELSE "col2",
            IF i = Len(col2_cards) THEN 1 ELSE i + 1)

\* return img
Return ==
    /\ pc = "ret"
    /\ pc' = IF mode = "main" THEN "save" ELSE "returned"
    /\ UNCHANGED <<mode, size, img, ops, i, calls, prev, saveCalls, file, written,
                   printed, exitCode>>

\* A direct caller invokes create_favicon again on the same argument.
CallAgain ==
    /\ pc = "returned"
    /\ calls < MaxCalls
    /\ prev' = [none |-> FALSE, img |-> img, ops |-> ops]
    /\ calls' = calls + 1
    /\ pc' = "new"
    /\ UNCHANGED <<mode, size, img, ops, i, saveCalls, file, written, printed, exitCode>>

SaveCall ==
    [path |-> out_path, format |-> "ICO",
     sizes |-> {<<sizes[k], sizes[k]>> : k \in DOMAIN sizes},
     w |-> img.w, h |-> img.h]

\* img.save(out_path, format="ICO", sizes=...) succeeds
SaveOk ==
    /\ pc = "save"
    /\ saveCalls' = Append(saveCalls, SaveCall)
    /\ file' = IcoFrames(img, SaveCall.sizes)
    /\ written' = TRUE
    /\ pc' = "print"
    /\ UNCHANGED <<mode, size, img, ops, i, calls, prev, printed, exitCode>>

\* img.save(...) raises OSError: nothing catches it, the interpreter exits 1
SaveFailsSwallowed ==
    /\ pc = "save"
    /\ saveCalls' = Append(saveCalls, SaveCall)
    /\ pc' = "print"
    /\ UNCHANGED <<mode, size, img, ops, i, calls, prev, file, written, printed, exitCode>>

SaveFails ==
    /\ pc = "save"
    /\ saveCalls' = Append(saveCalls, SaveCall)
    /\ pc' = "failed"
    /\ exitCode' = 1
    /\ UNCHANGED <<mode, size, img, ops, i, calls, prev, file, written, printed>>

\* print(f"... Favicon saved to {out_path} ...")
PrintConfirmation ==
    /\ pc = "print"
    /\ printed' = printed + 1
    /\ pc' = "done"
    /\ exitCode' = 0
    /\ UNCHANGED <<mode, size, img, ops, i, calls, prev, saveCalls, file, written>>

Next ==
    \/ MainCall
    \/ NewCanvas
    \/ DrawBackground
    \/ DrawCol1Card
    \/ DrawCol2Card
    \/ Return
    \/ CallAgain
    \/ SaveOk
    \/ SaveFails
    \/ PrintConfirmation

Spec == Init /\ [][Next]_vars

----------------------------------------------------------------------------
\* Helpers of the properties

\* The canvas of the running invocation exists.
Allocated == pc \in {"bg", "col1", "col2", "ret", "returned", "save", "print",
                     "done", "failed"}

\* create_favicon has returned its image.
Rendered == pc \in {"returned", "save", "print", "done", "failed"}

\* The card calls among the rounded_rectangle calls issued so far.
CardOps == {k \in DOMAIN ops : k >= 2}

AllCards == Len(col1_cards) + Len(col2_cards)

FullGrid(sz) == (0 .. sz - 1) \X (0 .. sz - 1)

RectContains(op, x, y) == InBox(x, y, op.x0, op.y0, op.x1, op.y1)

RectsDisjoint(a, b) ==
    \/ a.x1 < b.x0 \/ b.x1 < a.x0
    \/ a.y1 < b.y0 \/ b.y1 < a.y0

\* Python's round(num / den): to nearest, ties to even.
PyRound(num, den) ==
    LET q == num \div den
        rem == num % den
    IN  IF 2 * rem < den THEN q
        ELSE IF 2 * rem > den THEN q + 1
        ELSE IF q % 2 = 0 THEN q ELSE q + 1

ThreeFrames == {<<16, 16>>, <<32, 32>>, <<48, 48>>}

----------------------------------------------------------------------------
\* C1: for every supported size S, the canvas is S x S from its allocation
\* to its return, whatever has been drawn on it.
C1_ImageIsSizeBySize ==
    (Allocated /\ size \in SupportedSizes) =>
        /\ img.w = size
        /\ img.h = size
        /\ DOMAIN img.px = FullGrid(size)

C1_Witness ==
    /\ pc = "returned" /\ size = 16 /\ Len(ops) = 1 + AllCards
    /\ img.w = 16 /\ img.h = 16

\* C2: for every supported size S, the four scaled and truncated coordinates
\* of each of the five card rectangles lie in 0 .. S - 1.
C2_CardsInsideCanvas ==
    (size \in SupportedSizes) =>
        /\ \A k \in CardOps :
              \A v \in {ops[k].x0, ops[k].y0, ops[k].x1, ops[k].y1} :
                  0 <= v /\ v < size
        /\ Rendered => Cardinality(CardOps) = 5

C2_Witness ==
    /\ pc = "returned" /\ size = 48 /\ Cardinality(CardOps) = 5
    /\ ops[4].y1 = 42

\* C3: create_favicon(32) leaves pixel (16,16) emerald, no card rectangle
\* containing it, and pixel (8,8) in the card colour, the first card of
\* column 1 containing it.
C3_Pixels32 ==
    (Rendered /\ size = 32) =>
        /\ img.px[<<16, 16>>] = EMERALD
        /\ \A k \in CardOps : ~RectContains(ops[k], 16, 16)
        /\ img.px[<<8, 8>>] = CARD_COLOR
        /\ RectContains(ops[2], 8, 8)
        /\ ops[2] = Op(4, 4, 14, 13, 1, CARD_COLOR)

C3_Witness ==
    /\ pc = "returned" /\ size = 32 /\ Len(ops) = 1 + AllCards
    /\ img.px[<<8, 8>>] = CARD_COLOR

\* C4: a run of main() renders once, at size 48, and a successful run issues
\* one save to the fixed path requesting exactly 16x16, 32x32 and 48x48; the
\* container then holds exactly those three frames.
C4_OneRenderOneSave ==
    (mode = "main") =>
        /\ calls <= 1
        /\ Len(saveCalls) <= 1
        /\ (pc \in {"print", "done"}) =>
              /\ calls = 1
              /\ size = 48
              /\ img.w = 48 /\ img.h = 48
              /\ Len(saveCalls) = 1
              /\ saveCalls[1].path = out_path
              /\ saveCalls[1].sizes = ThreeFrames
              /\ saveCalls[1].w = 48
              /\ written
              /\ file = ThreeFrames

C4_Witness ==
    /\ mode = "main" /\ pc = "done" /\ written /\ Cardinality(file) = 3

C6_BgRadiusMonotone ==
    (Allocated /\ Len(ops) >= 1) =>
        \A s1 \in 1 .. size : BgRadius(s1) <= ops[1].radius

C6_Witness ==
    /\ pc = "col1" /\ size = 48 /\ Len(ops) = 1 /\ ops[1].radius = 9
    /\ BgRadius(16) = 3 /\ BgRadius(32) = 6

\* C7: the confirmation line is printed at most once, only after a
\* successful save, and exactly once when the run is done; a failed save ends
\* the run with a non-zero status, nothing printed and nothing left to do.
C7_PrintOnlyAfterSave ==
    /\ printed <= 1
    /\ printed = 1 => (written /\ Len(saveCalls) = 1 /\ pc = "done")
    /\ pc = "done" => (printed = 1 /\ exitCode = 0)
    /\ pc = "failed" =>
          /\ printed = 0
          /\ exitCode # 0 /\ exitCode # -1
          /\ Len(saveCalls) = 1
          /\ ~ENABLED Next

C7_Witness ==
    /\ mode = "main" /\ pc = "failed" /\ printed = 0 /\ exitCode = 1

\* C8 as stated: for every supported size the card radius is
\* max(1, round(1.5 * S / 32)) and the background radius round(6 * S / 32).
C8_RadiiRounded ==
    (size \in SupportedSizes) =>
        /\ \A k \in CardOps :
              ops[k].radius = Max(1, PyRound(3 * size, 2 * BaseGrid))
        /\ Len(ops) >= 1 => ops[1].radius = PyRound(6 * size, BaseGrid)

\* C8 amended: for every supported size the card radius is the truncation
\* of 1.5 * S / 32, raised to 1 when that is 0, and the background radius is
\* round(6 * S / 32).
C8_RadiiTruncated ==
    (size \in SupportedSizes) =>
        /\ \A k \in CardOps :
              LET r == ops[k].radius
              IN  /\ r >= 1
                  /\ r = 1 \/ 2 * BaseGrid * r <= 3 * size
                  /\ 2 * BaseGrid * (r + 1) > 3 * size
        /\ Len(ops) >= 1 => ops[1].radius = PyRound(6 * size, BaseGrid)

C8_Witness ==
    /\ size = 32 /\ pc = "ret" /\ Cardinality(CardOps) = 5
    /\ ops[2].radius = 1 /\ PyRound(3 * size, 2 * BaseGrid) = 2

\* C9: for every positive size, every rectangle handed to rounded_rectangle
\* has x0 <= x1 and y0 <= y1, and the call never raises.
C9_GeometryWellFormed ==
    /\ pc # "raised"
    /\ \A k \in DOMAIN ops : ops[k].x0 <= ops[k].x1 /\ ops[k].y0 <= ops[k].y1
    /\ Len(ops) >= 1 => (ops[1].x0 = 0 /\ ops[1].x1 = size - 1 /\ 0 <= size - 1)

C9_Witness ==
    /\ pc = "returned" /\ size = 1 /\ Len(ops) = 1 + AllCards
    /\ ops[6].x0 = ops[6].x1

\* C10: for every supported size, the five card rectangles, as inclusive
\* pixel rectangles, are pairwise disjoint.
C10_CardsDisjoint ==
    (size \in SupportedSizes) =>
        \A j \in CardOps : \A k \in CardOps :
            j < k => RectsDisjoint(ops[j], ops[k])

C10_Witness ==
    /\ pc = "returned" /\ size = 16 /\ Cardinality(CardOps) = 5
    /\ ops[2].y1 = 6 /\ ops[3].y0 = 7

====
